---- MODULE Spec2Model ----
(***************************************************************************)
(* Model of bot.py: the notification dispatcher (check_notifications), the *)
(* admin commands (/notify, /stats), and the order queries (/orders,       *)
(* /completed, /status) over the external stores notifications_queue,      *)
(* bot_users and cloud_sync_log.                                           *)
(***************************************************************************)
EXTENDS Integers, Sequences, FiniteSets, TLC

\* ------------------------------------------------------------------ bounds
\* Most tasks the producers ever put into notifications_queue.
MaxTasks == 11
\* Most transient failures (gateway or store) the environment injects in a run.
MaxFaults == 2

\* Most undeliverable tasks (invalid chat) waiting in the queue at start-up.
MaxBacklog == 10

\* Most users that ever talk to the bot; their telegram ids are 1..MaxUsers.
MaxUsers == 3

\* Most rows of a freely chosen event log.
MaxEvents == 2
\* Most rows of a freely ordered input of the active-orders fold.
MaxInput == 3
\* Latest created_at of a freely chosen event; 0 lies before the window.
MaxTime == 3
\* Most rows of a patterned event log (one event per instant 1..n).
MaxLog == 22

\* ------------------------------------------------------- program constants
\* .limit(10) of the pending fetch.
BatchLimit == 10
\* response.data[:20] of filter_by_status.
RowLimit == 20
\* thirty_days_ago: the first instant of the 30-day window.
WindowStart == 1

Null == "null"
\* datetime.now().isoformat() at the moment of the update; the value is opaque.
Now == "now()"

\* Chats of the messaging gateway: send_message to GoodChat succeeds unless a
\* transient fault is injected, send_message to BadChat raises on every call
\* (an invalid recipient).
GoodChat == "chat_ok"
BadChat == "chat_invalid"

VARIABLES
    notifications_queue,  \* the task table, rows in insertion order
    pc,                   \* check_notifications: "idle" or "sending"
    batch,                \* response.data of the running cycle (row snapshots)
    pos,                  \* index in batch of the next notification
    attempted,            \* ids passed to send_message in the running cycle
    failed,               \* ids whose send_message raised in the latest cycle
    retry,                \* ids whose send_message raised in the cycle before
    faults,               \* transient failures the environment may still inject
    bot_users,            \* the recipient registry: telegram_id of each row
    last,                 \* the latest command: caller, reply, reads, sends
    cloud_sync_log,       \* the event log: a set of event rows
    view,                 \* the latest order query: its input rows and its answer
    delivered,            \* history: per task, the send_message calls that returned
    unmarked              \* history: tasks sent in an iteration that did not mark them

dvars == <<notifications_queue, pc, batch, pos, attempted, failed, retry, faults,
           delivered, unmarked>>
cvars == <<bot_users, last>>
qvars == <<cloud_sync_log, view>>
vars == <<dvars, cvars, qvars>>

Min(a, b) == IF a < b THEN a ELSE b

Reply(kind) == [kind |-> kind]

\* What a handler did: its reply to the caller, the tables it queried, the
\* send_message calls to recipients, and the recipient list it worked on.
Outcome(cmd, caller, reply, reads, sends, recipients) ==
    [cmd |-> cmd, caller |-> caller, reply |-> reply, reads |-> reads,
     sends |-> sends, recipients |-> recipients]

\* No command has been handled.
NoCommand == Outcome("none", 0, Reply("none"), <<>>, <<>>, <<>>)

\* An order query: the rows the select returned (data), the rows of the
\* answer, and the remainder line of /status (empty when there is none).
View(cmd, query, kind, data, rows, remainder) ==
    [cmd |-> cmd, query |-> query, kind |-> kind, data |-> data,
     rows |-> rows, remainder |-> remainder]

\* No order query has been handled.
NoView == View("none", <<>>, "none", <<>>, <<>>, <<>>)

\* --------------------------------------------------------- the task store
NewTask(id, chat, created) ==
    [id |-> id, telegram_id |-> chat, status |-> "pending",
     sent_at |-> Null, created_at |-> created]

\* .eq("status", "pending")
EqStatusPending(rows) == SelectSeq(rows, LAMBDA r : r.status = "pending")

\* .order("created_at"): ascending, rows of equal created_at in table order.
\* Row i goes to the place given by the number of rows that sort before it.
OrderByCreatedAt(rows) ==
    LET Before(j, i) ==
            \/ rows[j].created_at < rows[i].created_at
            \/ rows[j].created_at = rows[i].created_at /\ j < i
        Place(i) == 1 + Cardinality({j \in 1..Len(rows) : Before(j, i)})
    IN  [p \in 1..Len(rows) |-> rows[CHOOSE i \in 1..Len(rows) : Place(i) = p]]

\* .limit(n)
Limit(rows, n) == SubSeq(rows, 1, Min(n, Len(rows)))

\* A fetch that forgets the status filter.
FetchAnyStatus(rows) == Limit(OrderByCreatedAt(rows), BatchLimit)

\* select("*").eq("status","pending").order("created_at").limit(10)
FetchPending(rows) == Limit(OrderByCreatedAt(EqStatusPending(rows)), BatchLimit)

\* An update that writes a failed state for the row.
MarkFailed(rows, id) ==
    [k \in 1..Len(rows) |->
        IF rows[k].id = id THEN [rows[k] EXCEPT !.status = "failed"] ELSE rows[k]]

\* The except branch of the per-notification try: logger.error only.
OnSendError(rows, id) == rows

\* An update that is applied whatever the id.
MarkAllSent(rows, id) ==
    [k \in 1..Len(rows) |-> [rows[k] EXCEPT !.status = "sent", !.sent_at = Now]]

\* An update whose filter matches no row.
MarkNothing(rows, id) == rows

\* .update({"status": "sent", "sent_at": now}).eq("id", id)
MarkSent(rows, id) ==
    [k \in 1..Len(rows) |->
        IF rows[k].id = id
        THEN [rows[k] EXCEPT !.status = "sent", !.sent_at = Now]
        ELSE rows[k]]

\* What send_message may do for a row: raise for an invalid chat, and raise
\* transiently while the environment has faults left.
SendOutcomes(n) ==
    IF n.telegram_id = BadChat THEN {"raise"}
    ELSE IF faults > 0 THEN {"ok", "transient"} ELSE {"ok"}

\* What the status update may do: fail while the environment has faults left.
UpdateOutcomes == IF faults > 0 THEN {"ok", "raise"} ELSE {"ok"}

Ids(rows) == [k \in 1..Len(rows) |-> rows[k].id]

\* ------------------------------------------------------------- dispatcher
\* A producer (external) inserts a pending task; created_at is the insert clock.
Enqueue ==
    /\ Len(notifications_queue) < MaxTasks
    /\ notifications_queue' = Append(notifications_queue,
           NewTask(Len(notifications_queue) + 1, GoodChat,
                   Len(notifications_queue) + 1))
    /\ delivered' = Append(delivered, 0)
    /\ UNCHANGED <<pc, batch, pos, attempted, failed, retry, faults, unmarked,
                   cvars, qvars>>

\* The job queue starts a cycle and the pending fetch returns.
Fetch ==
    /\ pc = "idle"
    /\ batch' = FetchPending(notifications_queue)
    /\ pc' = "sending"
    /\ pos' = 1
    /\ attempted' = <<>>
    /\ failed' = {}
    /\ retry' = failed
    /\ UNCHANGED <<notifications_queue, faults, delivered, unmarked, cvars, qvars>>

\* The job queue starts a cycle and the pending fetch raises: the outer
\* except logs and the cycle is over.
FetchFails ==
    /\ pc = "idle"
    /\ faults > 0
    /\ faults' = faults - 1
    /\ failed' = {}
    /\ retry' = failed
    /\ UNCHANGED <<notifications_queue, pc, batch, pos, attempted, delivered,
                   unmarked, cvars, qvars>>

\* A loop that a raising send or update leaves for the outer except.
AbortOnRaise(outcome) == IF outcome = "ok" THEN "sending" ELSE "idle"

\* The try/except inside the for loop: whatever the iteration did, the loop
\* goes on with the next notification.
AfterAttempt(outcome) == "sending"

\* One iteration of the for loop: send_message, then the status update.
Attempt ==
    /\ pc = "sending"
    /\ pos <= Len(batch)
    /\ LET n == batch[pos]
       IN  /\ attempted' = Append(attempted, n.id)
           /\ \E s \in SendOutcomes(n) :
                IF s = "ok"
                THEN \E u \in UpdateOutcomes :
                       /\ notifications_queue' =
                              IF u = "ok" THEN MarkSent(notifications_queue, n.id)
                              ELSE OnSendError(notifications_queue, n.id)
                       /\ faults' = IF u = "ok" THEN faults ELSE faults - 1
                       /\ failed' = failed
                       /\ delivered' = [delivered EXCEPT ![n.id] = @ + 1]
                       /\ unmarked' = IF u = "ok" THEN unmarked
                                      ELSE unmarked \cup {n.id}
                       /\ pc' = AfterAttempt(u)
                ELSE /\ notifications_queue' = OnSendError(notifications_queue, n.id)
                     /\ faults' = IF s = "transient" THEN faults - 1 ELSE faults
                     /\ failed' = failed \cup {n.id}
                     /\ UNCHANGED <<delivered, unmarked>>
                     /\ pc' = AfterAttempt("raise")
    /\ pos' = pos + 1
    /\ UNCHANGED <<batch, retry, cvars, qvars>>

\* The for loop is exhausted: the cycle ends.
EndCycle ==
    /\ pc = "sending"
    /\ pos > Len(batch)
    /\ pc' = "idle"
    /\ batch' = <<>>
    /\ pos' = 1
    /\ attempted' = <<>>
    /\ UNCHANGED <<notifications_queue, failed, retry, faults, delivered,
                   unmarked, cvars, qvars>>

DInit ==
    /\ notifications_queue = <<>>
    /\ pc = "idle"
    /\ batch = <<>>
    /\ pos = 1
    /\ attempted = <<>>
    /\ failed = {}
    /\ retry = {}
    /\ faults = MaxFaults
    /\ delivered = <<>>
    /\ unmarked = {}


Init ==
    /\ DInit
    /\ bot_users = <<>>
    /\ last = NoCommand
    /\ cloud_sync_log = {}
    /\ view = NoView

Next == Enqueue \/ Fetch \/ FetchFails \/ Attempt \/ EndCycle

Spec == Init /\ [][Next]_vars

\* The process stops inside a cycle and is started again: the cycle's local
\* state is gone and the table is as the finished iterations left it. The
\* stop may fall between a send_message that returned and its update.
Stop ==
    /\ pc = "sending"
    /\ faults > 0
    /\ faults' = faults - 1
    /\ \E sent \in BOOLEAN :
         IF sent
         THEN /\ pos <= Len(batch)
              /\ batch[pos].telegram_id = GoodChat
              /\ delivered' = [delivered EXCEPT ![batch[pos].id] = @ + 1]
              /\ unmarked' = unmarked \cup {batch[pos].id}
         ELSE UNCHANGED <<delivered, unmarked>>
    /\ pc' = "idle"
    /\ batch' = <<>>
    /\ pos' = 1
    /\ attempted' = <<>>
    /\ failed' = {}
    /\ retry' = {}
    /\ UNCHANGED <<notifications_queue, cvars, qvars>>

StopNext == Next \/ Stop

SpecStop == Init /\ [][StopNext]_vars

\* ------------------------------------------------- dispatcher properties
Rows(rows) == {rows[k] : k \in 1..Len(rows)}
PendingRows(rows) == {r \in Rows(rows) : r.status = "pending"}
TaskFields == {"id", "telegram_id", "status", "sent_at", "created_at"}

\* The row is pending and fewer than n pending rows are older than it.
AmongOldestPending(rows, r, n) ==
    /\ r.status = "pending"
    /\ Cardinality({o \in PendingRows(rows) : o.created_at < r.created_at}) < n

FetchStep == pc = "idle" /\ pc' = "sending"
AttemptStep == pc = "sending" /\ pc' = "sending" /\ attempted' # attempted
EndStep == pc = "sending" /\ pc' = "idle"

\* C1: a task whose send raised in a cycle is pending with no sent_at when
\* the cycle ends and until the next fetch, the next fetch returns it when it
\* is among the 10 oldest pending tasks, and no row ever carries a status
\* other than pending or sent or a field beyond the five of the table.
C1_FailedStaysPending ==
    [][ /\ \A r \in Rows(notifications_queue') :
              /\ DOMAIN r = TaskFields
              /\ r.status \in {"pending", "sent"}
              /\ r.id \in failed' => r.status = "pending" /\ r.sent_at = Null
        /\ FetchStep =>
              \A r \in Rows(notifications_queue) :
                  (r.id \in failed /\ AmongOldestPending(notifications_queue, r, BatchLimit))
                      => r \in Rows(batch')
      ]_vars

\* C1 witness: a task whose send raised in the previous cycle is in the batch
\* of the running cycle, still pending.
C1_Witness ==
    /\ pc = "sending"
    /\ \E r \in Rows(batch) : r.id \in retry /\ r.status = "pending" /\ r.sent_at = Null

\* C3: the fetch of a cycle returns min(10, pending) rows, all pending, in
\* ascending created_at order, none younger than a pending row left out; the
\* cycle attempts the rows of the batch in that order, each pending when it is
\* attempted, and has attempted the whole batch when it ends.
C3_BatchBound ==
    [][ /\ FetchStep =>
              /\ Len(batch') = Min(BatchLimit, Cardinality(PendingRows(notifications_queue)))
              /\ Cardinality(Rows(batch')) = Len(batch')
              /\ Rows(batch') \subseteq PendingRows(notifications_queue)
              /\ \A j, k \in 1..Len(batch') :
                     j < k => batch'[j].created_at <= batch'[k].created_at
              /\ \A r \in PendingRows(notifications_queue) \ Rows(batch') :
                     \A b \in Rows(batch') : b.created_at <= r.created_at
        /\ AttemptStep =>
              /\ attempted' = Ids(SubSeq(batch, 1, Len(attempted')))
              /\ Len(attempted') = Len(attempted) + 1
              /\ \E r \in PendingRows(notifications_queue) :
                     r.id = attempted'[Len(attempted')]
        /\ EndStep => attempted = Ids(batch)
      ]_vars

\* C3 witness: a cycle has attempted and delivered 10 tasks, all older than a
\* pending task it left out.
C3_Witness ==
    /\ pc = "sending"
    /\ Len(attempted) = BatchLimit
    /\ faults = MaxFaults
    /\ \E r \in PendingRows(notifications_queue) :
           \A k \in 1..Len(attempted) : attempted[k] < r.id

\* --------------------------------------------- dispatcher under fairness
\* The queue holds a backlog of tasks addressed to a chat the gateway rejects
\* on every call; the store is reachable and no transient fault occurs.
LiveInit ==
    /\ \E b \in 0..MaxBacklog :
           notifications_queue = [k \in 1..b |-> NewTask(k, BadChat, k)]
    /\ pc = "idle"
    /\ batch = <<>>
    /\ pos = 1
    /\ attempted = <<>>
    /\ failed = {}
    /\ retry = {}
    /\ faults = 0
    /\ delivered = [k \in 1..Len(notifications_queue) |-> 0]
    /\ unmarked = {}
    /\ bot_users = <<>>
    /\ last = NoCommand
    /\ cloud_sync_log = {}
    /\ view = NoView

LiveNext == Enqueue \/ Fetch \/ Attempt \/ EndCycle

\* job_queue.run_repeating(check_notifications, interval=30, first=10): a
\* cycle is started again and again, and a started cycle runs to its end.
SpecLive ==
    /\ LiveInit
    /\ [][LiveNext]_vars
    /\ WF_vars(Fetch) /\ WF_vars(Attempt) /\ WF_vars(EndCycle)

HasTask(id, chat, status) ==
    \E r \in Rows(notifications_queue) :
        r.id = id /\ r.telegram_id = chat /\ r.status = status

\* C2: every pending task whose send succeeds when attempted is eventually
\* marked sent, whatever other tasks are pending.
C2_AtLeastOnce ==
    \A id \in 1..MaxTasks :
        HasTask(id, GoodChat, "pending") ~> HasTask(id, GoodChat, "sent")

\* --------------------------------------------------------------- commands
Users == 1..MaxUsers

\* ADMIN_IDS = json.loads(os.getenv("ADMIN_IDS", "[]")): one administrator.
ADMIN_IDS == {1}

\* A gate that lets every caller through.
IsAdminAnyone(user_id) == TRUE

\* user_id in ADMIN_IDS
IsAdmin(user_id) == user_id \in ADMIN_IDS

Count(sends, ok) == Cardinality({k \in 1..Len(sends) : sends[k].ok = ok})

\* A loop that gives up at the first send that raises.
BroadcastLoopAbort(data, raises) ==
    LET bad == {k \in 1..Len(data) : raises[k]}
        stop == IF bad = {} THEN Len(data)
                ELSE CHOOSE k \in bad : \A j \in bad : k <= j
        sends == [k \in 1..stop |-> [chat_id |-> data[k], ok |-> ~raises[k]]]
    IN  [sends |-> sends, sent_count |-> Count(sends, TRUE),
         failed_count |-> Count(sends, FALSE)]

\* A loop that does not count the sends that raise.
BroadcastLoopUncounted(data, raises) ==
    LET sends == [k \in 1..Len(data) |-> [chat_id |-> data[k], ok |-> ~raises[k]]]
    IN  [sends |-> sends, sent_count |-> Count(sends, TRUE), failed_count |-> 0]

\* for user in users_response.data: try send_message, sent_count += 1;
\* except: failed_count += 1. raises[k] tells whether the k-th call raises.
RECURSIVE BroadcastFrom(_, _, _, _)
BroadcastFrom(data, raises, k, acc) ==
    IF k > Len(data) THEN acc
    ELSE BroadcastFrom(data, raises, k + 1,
           IF raises[k]
           THEN [acc EXCEPT !.sends = Append(@, [chat_id |-> data[k], ok |-> FALSE]),
                            !.failed_count = @ + 1]
           ELSE [acc EXCEPT !.sends = Append(@, [chat_id |-> data[k], ok |-> TRUE]),
                            !.sent_count = @ + 1])

BroadcastLoop(data, raises) ==
    BroadcastFrom(data, raises, 1,
                  [sends |-> <<>>, sent_count |-> 0, failed_count |-> 0])

\* send_notification: the /notify handler. registry_ok tells whether the
\* select on bot_users returns.
send_notification(user_id, has_args, registry_ok, raises) ==
    IF ~IsAdmin(user_id)
    THEN Outcome("notify", user_id, Reply("admin_only"), <<>>, <<>>, <<>>)
    ELSE IF ~has_args
    THEN Outcome("notify", user_id, Reply("usage"), <<>>, <<>>, <<>>)
    ELSE IF ~registry_ok
    THEN Outcome("notify", user_id, Reply("error"), <<"bot_users">>, <<>>, <<>>)
    ELSE IF bot_users = <<>>
    THEN Outcome("notify", user_id, Reply("no_users"), <<"bot_users">>, <<>>, <<>>)
    ELSE LET r == BroadcastLoop(bot_users, raises)
         IN  Outcome("notify", user_id,
                     [kind |-> "tally", sent_count |-> r.sent_count,
                      failed_count |-> r.failed_count],
                     <<"bot_users">>, r.sends, bot_users)

\* The three selects of show_stats, in order.
StatsReads == <<"bot_users", "cloud_sync_log", "cloud_sync_log">>

\* show_stats: the /stats handler. raising is the select that raises, 0 for
\* none. The reply is reduced to its two totals.
show_stats(user_id, raising) ==
    IF ~IsAdmin(user_id)
    THEN Outcome("stats", user_id, Reply("admin_only"), <<>>, <<>>, <<>>)
    ELSE IF raising > 0
    THEN Outcome("stats", user_id, Reply("error"),
                 SubSeq(StatsReads, 1, raising), <<>>, <<>>)
    ELSE Outcome("stats", user_id,
                 [kind |-> "stats", users_count |-> Len(bot_users),
                  events_count |-> Cardinality(cloud_sync_log)],
                 StatsReads, <<>>, <<>>)

Registered(user_id) == \E k \in 1..Len(bot_users) : bot_users[k] = user_id

\* start: register the caller when the registry has no row for it; a store
\* failure is logged and the welcome is sent all the same.
Start ==
    \E u \in Users, store_ok \in BOOLEAN :
        /\ bot_users' = IF store_ok /\ ~Registered(u)
                        THEN Append(bot_users, u) ELSE bot_users
        /\ last' = Outcome("start", u, Reply("welcome"), <<"bot_users">>, <<>>, <<>>)
        /\ UNCHANGED <<dvars, qvars>>

Notify ==
    \E u \in Users, has_args \in BOOLEAN, registry_ok \in BOOLEAN,
       raises \in [1..Len(bot_users) -> BOOLEAN] :
        /\ last' = send_notification(u, has_args, registry_ok, raises)
        /\ UNCHANGED <<dvars, bot_users, qvars>>

Stats ==
    \E u \in Users, raising \in 0..Len(StatsReads) :
        /\ last' = show_stats(u, raising)
        /\ UNCHANGED <<dvars, bot_users, qvars>>

CmdNext == Start \/ Notify \/ Stats

SpecCmd == Init /\ [][CmdNext]_vars

\* C4: the tally a broadcast reports adds up to the size of the recipient
\* list, sent_count being the number of sends that succeeded and
\* failed_count the number that raised.
C4_TallyInvariant ==
    (last.cmd = "notify" /\ last.reply.kind = "tally") =>
        /\ last.reply.sent_count + last.reply.failed_count = Len(last.recipients)
        /\ last.reply.sent_count = Count(last.sends, TRUE)
        /\ last.reply.failed_count = Count(last.sends, FALSE)

\* C4 witness: a broadcast to recipients 1, 2, 3 where the send to 2 raised
\* reported 2 sent and 1 failed.
C4_Witness ==
    /\ last.cmd = "notify"
    /\ last.recipients = <<1, 2, 3>>
    /\ last.reply = [kind |-> "tally", sent_count |-> 2, failed_count |-> 1]
    /\ ~last.sends[2].ok

\* C5: a broadcast makes one send_message call per row of the fetched list,
\* in list order, whatever the outcome of the earlier calls.
C5_OneAttemptEach ==
    (last.cmd = "notify" /\ last.reply.kind = "tally") =>
        /\ Len(last.sends) = Len(last.recipients)
        /\ \A k \in 1..Len(last.sends) : last.sends[k].chat_id = last.recipients[k]

\* C5 witness: the first send of a broadcast raised and the two recipients
\* after it were attempted, one with success and one without.
C5_Witness ==
    /\ last.cmd = "notify"
    /\ Len(last.recipients) = 3
    /\ Len(last.sends) = 3
    /\ ~last.sends[1].ok /\ last.sends[2].ok /\ ~last.sends[3].ok

\* C6: a /notify or /stats from a caller outside ADMIN_IDS replies with the
\* refusal only: no table is queried, no message goes to a recipient, and
\* the registry, the event log and the task store are unchanged.
C6_UnauthorizedRefused ==
    [][ (/\ last' # last
         /\ last'.cmd \in {"notify", "stats"}
         /\ last'.caller \notin ADMIN_IDS)
        => /\ last'.reply = Reply("admin_only")
           /\ last'.reads = <<>>
           /\ last'.sends = <<>>
           /\ UNCHANGED <<bot_users, cloud_sync_log, notifications_queue>>
      ]_vars

\* C6 witness: a registered caller who is no administrator was refused
\* /notify while the registry held recipients.
C6_Witness ==
    /\ last.cmd = "notify"
    /\ last.caller \notin ADMIN_IDS
    /\ Registered(last.caller)
    /\ Len(bot_users) >= 2
    /\ last.reply = Reply("admin_only")

\* ----------------------------------------------------------- order queries
\* Status texts are sequences of characters, so that LIKE is a search.
StNew == <<"N", "e", "w">>
StCompleted == <<"C", "o", "m", "p", "l", "e", "t", "e", "d">>

\* event.get('status', 'Неизвестен'): the text shown for a missing status.
StUnknown == <<"?">>

\* A value of the event_data column as the client returns it: its python
\* type, the keys and the status of a dict, the text of a str.
Payload(type, keys, status, text) ==
    [type |-> type, keys |-> keys, status |-> status, text |-> text]

DictPayload(status) == Payload("dict", {"status"}, status, "")
EmptyDict == Payload("dict", {}, <<>>, "")
NonePayload == Payload("NoneType", {}, <<>>, "")
ListPayload == Payload("list", {}, <<>>, "")
StrPayload(text) == Payload("str", {}, <<>>, text)
JSONDecodeError == Payload("JSONDecodeError", {}, <<>>, "")

\* The texts a str payload holds: a JSON object, a JSON array, the JSON null
\* and a text that is no JSON.
TextObject == "{\"status\": \"New\"}"
TextArray == "[1]"
TextNull == "null"
TextBroken == "{status"
Texts == {TextObject, TextArray, TextNull, TextBroken}

Event(order_id, created_at, event_type, status) ==
    [order_id |-> order_id, created_at |-> created_at, event_type |-> event_type,
     event_data |-> DictPayload(status)]

\* An event row with any value in its event_data column.
PayloadEvent(order_id, created_at, payload) ==
    [order_id |-> order_id, created_at |-> created_at,
     event_type |-> "ORDER_UPDATED", event_data |-> payload]

\* json.loads(text): the value of the JSON text, or the decode error raised.
JsonLoads(text) ==
    CASE text = TextObject -> DictPayload(<<"N", "e", "w">>)
      [] text = TextArray -> ListPayload
      [] text = TextNull -> NonePayload
      [] OTHER -> JSONDecodeError

\* event_data = event.get('event_data', {}); if isinstance(event_data, str):
\* try json.loads, except: {}. The key is in every row, so the default of
\* get is never taken; a value that is no str is left as it is.
ParsePayload(event_data) ==
    IF event_data.type = "str"
    THEN LET value == JsonLoads(event_data.text)
         IN  IF value.type = "JSONDecodeError" THEN EmptyDict ELSE value
    ELSE event_data

\* event_data.get('status', default) on a dict.
GetStatus(d) == IF "status" \in d.keys THEN d.status ELSE StUnknown

\* The f-string of one row: event_data.get(...) raises AttributeError on a
\* value that is no dict.
RenderRow(event) ==
    LET d == ParsePayload(event.event_data)
    IN  IF d.type = "dict"
        THEN [order_id |-> event.order_id, status |-> GetStatus(d),
              created_at |-> event.created_at, raised |-> FALSE]
        ELSE [order_id |-> event.order_id, status |-> <<>>,
              created_at |-> event.created_at, raised |-> TRUE]

\* The rendering loop over rows runs to its end.
Renders(rows) == \A k \in 1..Len(rows) : ~RenderRow(rows[k]).raised

\* event_data->>status: the status text of a JSON object that has one.
HasStatus(e) == e.event_data.type = "dict" /\ "status" \in e.event_data.keys

\* .gte("created_at", thirty_days_ago)
InWindow(e) == e.created_at >= WindowStart

\* .like("event_data->>status", "%q%"): q occurs in the status text.
Like(status, q) ==
    \E i \in 0..(Len(status) - Len(q)) : SubSeq(status, i + 1, i + Len(q)) = q

\* .order("created_at", desc=True).execute(): every order of the rows that
\* descends by created_at; rows of equal created_at come in any order.
RECURSIVE OrderDesc(_)
OrderDesc(rows) ==
    IF rows = {} THEN {<<>>}
    ELSE LET top == {e \in rows : \A o \in rows : o.created_at <= e.created_at}
         IN  UNION {{<<e>> \o rest : rest \in OrderDesc(rows \ {e})} : e \in top}

\* show_orders: .neq("event_type", "ORDER_DELETED").gte("created_at", ...)
SelectActive(log) == {e \in log : e.event_type # "ORDER_DELETED" /\ InWindow(e)}

\* A select that forgets the status filter.
SelectWindowOnly(log) == {e \in log : InWindow(e)}

\* show_completed_orders: .eq("event_data->>status", "Completed").gte(...)
SelectCompleted(log) ==
    {e \in log : HasStatus(e) /\ e.event_data.status = StCompleted /\ InWindow(e)}

\* filter_by_status: .like("event_data->>status", f"%{status_query}%").gte(...)
SelectLike(log, q) ==
    {e \in log : HasStatus(e) /\ Like(e.event_data.status, q) /\ InWindow(e)}

\* Position in the dict d (insertion order) of the entry of order_id, 0 if none.
KeyIndex(d, order_id) ==
    IF \E i \in 1..Len(d) : d[i].order_id = order_id
    THEN CHOOSE i \in 1..Len(d) : d[i].order_id = order_id
    ELSE 0

\* A fold that replaces the entry on an equal created_at as well.
RECURSIVE FoldLatestOrEqual(_, _, _)
FoldLatestOrEqual(data, k, d) ==
    IF k > Len(data) THEN d
    ELSE LET i == KeyIndex(d, data[k].order_id)
         IN  FoldLatestOrEqual(data, k + 1,
                 IF i = 0 THEN Append(d, data[k])
                 ELSE IF data[k].created_at >= d[i].created_at
                      THEN [d EXCEPT ![i] = data[k]] ELSE d)

GroupLatestOrEqual(data) == FoldLatestOrEqual(data, 1, <<>>)

\* A fold that replaces the entry whatever the created_at.
RECURSIVE FoldLastSeen(_, _, _)
FoldLastSeen(data, k, d) ==
    IF k > Len(data) THEN d
    ELSE LET i == KeyIndex(d, data[k].order_id)
         IN  FoldLastSeen(data, k + 1,
                 IF i = 0 THEN Append(d, data[k]) ELSE [d EXCEPT ![i] = data[k]])

GroupLastSeen(data) == FoldLastSeen(data, 1, <<>>)

\* show_orders: for event in response.data: insert when the order is new,
\* replace when event['created_at'] > the entry's created_at.
RECURSIVE FoldLatest(_, _, _)
FoldLatest(data, k, d) ==
    IF k > Len(data) THEN d
    ELSE LET i == KeyIndex(d, data[k].order_id)
         IN  FoldLatest(data, k + 1,
                 IF i = 0 THEN Append(d, data[k])
                 ELSE IF data[k].created_at > d[i].created_at
                      THEN [d EXCEPT ![i] = data[k]] ELSE d)

GroupLatest(data) == FoldLatest(data, 1, <<>>)

\* show_completed_orders: for event in response.data: insert when the order
\* is new, nothing otherwise.
RECURSIVE FoldFirstSeen(_, _, _)
FoldFirstSeen(data, k, d) ==
    IF k > Len(data) THEN d
    ELSE FoldFirstSeen(data, k + 1,
             IF KeyIndex(d, data[k].order_id) = 0 THEN Append(d, data[k]) ELSE d)

GroupFirstSeen(data) == FoldFirstSeen(data, 1, <<>>)

\* response.data[:20]
FirstRows(data) == SubSeq(data, 1, Min(RowLimit, Len(data)))

\* A remainder line that is appended from 20 rows on.
StatusRemainderFrom20(data) ==
    IF Len(data) >= RowLimit THEN <<Len(data) - RowLimit>> ELSE <<>>

\* if len(response.data) > 20: append the count of the rows left out.
StatusRemainder(data) ==
    IF Len(data) > RowLimit THEN <<Len(data) - RowLimit>> ELSE <<>>

\* The part of show_orders after the select.
OrdersAnswer(data) ==
    IF data = <<>> THEN View("orders", <<>>, "empty", data, <<>>, <<>>)
    ELSE IF Renders(GroupLatest(data))
    THEN View("orders", <<>>, "list", data, GroupLatest(data), <<>>)
    ELSE View("orders", <<>>, "error", data, <<>>, <<>>)

\* The part of show_completed_orders after the select.
CompletedAnswer(data) ==
    IF data = <<>> THEN View("completed", <<>>, "empty", data, <<>>, <<>>)
    ELSE IF Renders(GroupFirstSeen(data))
    THEN View("completed", <<>>, "list", data, GroupFirstSeen(data), <<>>)
    ELSE View("completed", <<>>, "error", data, <<>>, <<>>)

\* The part of filter_by_status after the select.
StatusAnswer(q, data) ==
    IF data = <<>> THEN View("status", q, "empty", data, <<>>, <<>>)
    ELSE IF Renders(FirstRows(data))
    THEN View("status", q, "list", data, FirstRows(data), StatusRemainder(data))
    ELSE View("status", q, "error", data, <<>>, <<>>)

\* /orders
ShowOrders ==
    \E store_ok \in BOOLEAN :
        /\ IF store_ok
           THEN \E data \in OrderDesc(SelectActive(cloud_sync_log)) :
                    view' = OrdersAnswer(data)
           ELSE view' = View("orders", <<>>, "error", <<>>, <<>>, <<>>)
        /\ UNCHANGED <<dvars, cvars, cloud_sync_log>>

\* /completed
ShowCompleted ==
    \E store_ok \in BOOLEAN :
        /\ IF store_ok
           THEN \E data \in OrderDesc(SelectCompleted(cloud_sync_log)) :
                    view' = CompletedAnswer(data)
           ELSE view' = View("completed", <<>>, "error", <<>>, <<>>, <<>>)
        /\ UNCHANGED <<dvars, cvars, cloud_sync_log>>

\* The texts a caller passes to /status; <<>> is /status without arguments.
Queries == {<<>>, <<"e">>, <<"N", "e">>, StCompleted, <<"c">>}

\* /status [text]
FilterByStatus ==
    \E q \in Queries, store_ok \in BOOLEAN :
        /\ IF q = <<>>
           THEN view' = View("status", q, "usage", <<>>, <<>>, <<>>)
           ELSE IF store_ok
           THEN \E data \in OrderDesc(SelectLike(cloud_sync_log, q)) :
                    view' = StatusAnswer(q, data)
           ELSE view' = View("status", q, "error", <<>>, <<>>, <<>>)
        /\ UNCHANGED <<dvars, cvars, cloud_sync_log>>

OrderIds == {"A", "B"}

\* The events a freely chosen log draws from: updates of either status and
\* deletions, at instants 0..MaxTime.
EventUniverse ==
    {Event(o, t, "ORDER_UPDATED", st) :
        o \in OrderIds, t \in 0..MaxTime, st \in {StNew, StCompleted}}
    \cup {Event(o, t, "ORDER_DELETED", StNew) : o \in OrderIds, t \in 0..MaxTime}

RECURSIVE SubsetsUpTo(_, _)
SubsetsUpTo(S, n) ==
    IF n = 0 THEN {{}}
    ELSE LET smaller == SubsetsUpTo(S, n - 1)
         IN  smaller \cup {T \cup {e} : T \in smaller, e \in S}

\* A log of n events, one per instant 1..n, alternating between two orders,
\* every m-th of them Completed.
PatternLog(n, m) ==
    {Event(IF k % 2 = 0 THEN "A" ELSE "B", k, "ORDER_UPDATED",
           IF k % m = 0 THEN StCompleted ELSE StNew) : k \in 1..n}

\* Order A is created and later completed, order B is created in between.
ScenarioLog ==
    {Event("A", 1, "ORDER_UPDATED", StNew),
     Event("A", 3, "ORDER_UPDATED", StCompleted),
     Event("B", 2, "ORDER_UPDATED", StNew)}

QueryInit ==
    /\ DInit
    /\ bot_users = <<>>
    /\ last = NoCommand
    /\ \/ cloud_sync_log \in SubsetsUpTo(EventUniverse, MaxEvents)
       \/ \E n \in 0..MaxLog, m \in 1..3 : cloud_sync_log = PatternLog(n, m)
       \/ cloud_sync_log = ScenarioLog
    /\ view = NoView

QueryNext == ShowOrders \/ ShowCompleted \/ FilterByStatus

SpecQuery == QueryInit /\ [][QueryNext]_vars

\* ------------------------------------------- queries on any payload value
\* The values of event_data: dicts with and without a status, str of every
\* text, null and a list.
PayloadUniverse ==
    {DictPayload(st) : st \in {StNew, StCompleted}}
    \cup {EmptyDict, NonePayload, ListPayload}
    \cup {StrPayload(t) : t \in Texts}

PayloadEvents ==
    {PayloadEvent(o, t, p) :
        o \in OrderIds, t \in WindowStart..MaxTime, p \in PayloadUniverse}

PayloadInit ==
    /\ DInit
    /\ bot_users = <<>>
    /\ last = NoCommand
    /\ cloud_sync_log \in SubsetsUpTo(PayloadEvents, MaxEvents)
    /\ view = NoView

SpecPayload == PayloadInit /\ [][QueryNext]_vars

\* ------------------------------------------------- the fold on any input
\* The rows handed to the fold: events that are no deletions, in any order.
FoldUniverse ==
    {Event(o, t, "ORDER_UPDATED", st) :
        o \in OrderIds, t \in 1..MaxTime, st \in {StNew, StCompleted}}

RECURSIVE SeqsUpTo(_, _)
SeqsUpTo(S, n) ==
    IF n = 0 THEN {<<>>}
    ELSE LET shorter == SeqsUpTo(S, n - 1)
         IN  shorter \cup {Append(q, e) : q \in shorter, e \in S}

FoldInit ==
    /\ DInit
    /\ bot_users = <<>>
    /\ last = NoCommand
    /\ cloud_sync_log = {}
    /\ \E data \in SeqsUpTo(FoldUniverse, MaxInput) :
           view = View("input", <<>>, "input", data, <<>>, <<>>)

\* show_orders from the loop over response.data on.
ProjectOrders ==
    /\ view.cmd = "input"
    /\ view' = OrdersAnswer(view.data)
    /\ UNCHANGED <<dvars, cvars, cloud_sync_log>>

FoldNext == ProjectOrders

SpecFold == FoldInit /\ [][FoldNext]_vars

\* ------------------------------------------------------- query properties
Range(q) == {q[k] : k \in 1..Len(q)}
OrdersOf(q) == {q[k].order_id : k \in 1..Len(q)}
OneRowPerOrder(rows) ==
    \A i, j \in 1..Len(rows) : rows[i].order_id = rows[j].order_id => i = j
Descending(q) ==
    \A i, j \in 1..Len(q) : i < j => q[i].created_at >= q[j].created_at

\* Position in data of the first event of the order with the greatest
\* created_at among the events of the order.
FirstLatest(data, o) ==
    CHOOSE k \in 1..Len(data) :
        /\ data[k].order_id = o
        /\ \A j \in 1..Len(data) :
               data[j].order_id = o =>
                   /\ data[j].created_at <= data[k].created_at
                   /\ data[j].created_at = data[k].created_at => k <= j

\* C7: the active-orders fold of any input sequence has one entry per
\* order_id of the input, and the entry is the first event in input order
\* among the events of the order with the greatest created_at.
C7_FoldKeepsLatest ==
    (view.cmd = "orders" /\ view.kind = "list") =>
        /\ OrdersOf(view.rows) = OrdersOf(view.data)
        /\ OneRowPerOrder(view.rows)
        /\ \A i \in 1..Len(view.rows) :
               view.rows[i] = view.data[FirstLatest(view.data, view.rows[i].order_id)]

\* C7 witness: an input of three events of one order, the first older than
\* the other two, which differ and share the greatest created_at; the fold
\* kept the second.
C7_Witness ==
    /\ view.cmd = "orders"
    /\ Len(view.data) = 3
    /\ OrdersOf(view.data) = {"A"}
    /\ view.data[1].created_at < view.data[2].created_at
    /\ view.data[2].created_at = view.data[3].created_at
    /\ view.data[2] # view.data[3]
    /\ view.rows = <<view.data[2]>>

DistinctTimes(q) ==
    \A i, j \in 1..Len(q) : q[i].created_at = q[j].created_at => i = j
Perms(n) == {p \in [1..n -> 1..n] : \A i, j \in 1..n : p[i] = p[j] => i = j}
Permuted(q, p) == [k \in 1..Len(q) |-> q[p[k]]]

\* C8: when the created_at of the input events are pairwise distinct, the
\* fold selects the same event for every order whatever the order of the
\* input.
C8_PermutationInvariant ==
    (view.cmd = "orders" /\ view.kind = "list" /\ DistinctTimes(view.data)) =>
        \A p \in Perms(Len(view.data)) :
            Range(GroupLatest(Permuted(view.data, p))) = Range(view.rows)

\* C8 witness: an input with pairwise distinct created_at, in ascending
\* order, with two events of one order and one of the other.
C8_Witness ==
    /\ view.cmd = "orders"
    /\ Len(view.data) = 3
    /\ DistinctTimes(view.data)
    /\ view.data[1].created_at < view.data[2].created_at
    /\ view.data[2].created_at < view.data[3].created_at
    /\ view.data[1].order_id = view.data[3].order_id
    /\ view.data[1].order_id # view.data[2].order_id
    /\ Range(view.rows) = {view.data[2], view.data[3]}

\* The events of the log a /status query matches.
Matching(q) ==
    {e \in cloud_sync_log :
        e.created_at >= WindowStart /\ Like(e.event_data.status, q)}

\* C9: a /status query that matches N >= 1 events answers with min(N, 20)
\* rows, each a different matching event, in descending created_at order,
\* none older than a matching event left out, and with the remainder N - 20
\* when N > 20 and no remainder otherwise.
C9_StatusTruncation ==
    (view.cmd = "status" /\ view.kind \in {"list", "empty"}) =>
        LET matching == Matching(view.query)
            N == Cardinality(matching)
        IN  /\ view.kind = "empty" <=> N = 0
            /\ N >= 1 =>
                /\ Len(view.rows) = Min(N, 20)
                /\ Cardinality(Range(view.rows)) = Len(view.rows)
                /\ Range(view.rows) \subseteq matching
                /\ Descending(view.rows)
                /\ \A e \in matching \ Range(view.rows) :
                       \A r \in Range(view.rows) : e.created_at <= r.created_at
                /\ view.remainder = IF N > 20 THEN <<N - 20>> ELSE <<>>

\* C9 witness: a query that matched 22 events answered with 20 rows, both
\* orders among them more than once, and the remainder 2.
C9_Witness ==
    /\ view.cmd = "status"
    /\ Cardinality(Matching(view.query)) = 22
    /\ Len(view.rows) = 20
    /\ ~OneRowPerOrder(view.rows)
    /\ view.remainder = <<2>>

\* The Completed events of the log in the window.
CompletedEvents ==
    {e \in cloud_sync_log :
        e.created_at >= WindowStart /\ e.event_data.status = StCompleted}

\* C10: the completed view has one row per order with a Completed event in
\* the window and no other row, the row being the first event of the order
\* in the descending input; for the log [A@1 New, A@3 Completed, B@2 New]
\* the active view is {A: Completed@3, B: New@2} and the completed view {A}.
C10_CompletedView ==
    /\ (view.cmd = "completed" /\ view.kind \in {"list", "empty"}) =>
        /\ Range(view.data) = CompletedEvents
        /\ Descending(view.data)
        /\ OrdersOf(view.rows) = {e.order_id : e \in CompletedEvents}
        /\ OneRowPerOrder(view.rows)
        /\ \A i \in 1..Len(view.rows) :
               \E k \in 1..Len(view.data) :
                   /\ view.rows[i] = view.data[k]
                   /\ \A j \in 1..(k - 1) :
                          view.data[j].order_id # view.rows[i].order_id
    /\ (cloud_sync_log = ScenarioLog /\ view.cmd = "orders" /\ view.kind # "error") =>
        Range(view.rows) = {Event("A", 3, "ORDER_UPDATED", StCompleted),
                            Event("B", 2, "ORDER_UPDATED", StNew)}
    /\ (cloud_sync_log = ScenarioLog /\ view.cmd = "completed" /\ view.kind # "error") =>
        OrdersOf(view.rows) = {"A"}

\* C10 witness: the completed view of the log [A@1 New, A@3 Completed,
\* B@2 New] is the one row A, Completed at 3.
C10_Witness ==
    /\ cloud_sync_log = ScenarioLog
    /\ view.cmd = "completed"
    /\ view.rows = <<Event("A", 3, "ORDER_UPDATED", StCompleted)>>

\* ------------------------------------------- task lifecycle and failures
RowOf(rows, id) == CHOOSE r \in Rows(rows) : r.id = id

\* C11: a row's status changes only from pending to sent and never back,
\* only in an iteration of check_notifications whose send_message for that
\* row returned, and sent_at is set exactly on the rows that are sent.
C11_PendingToSentOnce ==
    [][ /\ Len(notifications_queue') >= Len(notifications_queue)
        /\ \A k \in 1..Len(notifications_queue) :
             LET old == notifications_queue[k]
                 new == notifications_queue'[k]
             IN  /\ new.id = old.id
                 /\ old.status = "sent" => new.status = "sent"
                 /\ new.status # old.status =>
                        /\ old.status = "pending" /\ new.status = "sent"
                        /\ AttemptStep
                        /\ attempted'[Len(attempted')] = old.id
                        /\ old.id \notin failed'
        /\ \A r \in Rows(notifications_queue') :
               r.sent_at # Null <=> r.status = "sent"
      ]_vars

\* C11 witness: in a running cycle one attempted task is sent with sent_at
\* set and another, whose send raised, is pending with no sent_at.
C11_Witness ==
    /\ pc = "sending"
    /\ \E i, j \in 1..Len(attempted) :
           /\ RowOf(notifications_queue, attempted[i]).status = "sent"
           /\ RowOf(notifications_queue, attempted[i]).sent_at = Now
           /\ attempted[j] \in failed
           /\ RowOf(notifications_queue, attempted[j]).status = "pending"
           /\ RowOf(notifications_queue, attempted[j]).sent_at = Null

\* C12: a pending fetch that raises ends the cycle with no send and no
\* change of the queue and leaves the dispatcher idle, where the next cycle
\* starts; a cycle that has notifications left in its batch is not left,
\* whatever the send or the update of an iteration did, and a cycle ends
\* with every row of its batch attempted.
C12_FailuresContained ==
    [][ /\ (pc = "idle" /\ faults' # faults) =>
              /\ notifications_queue' = notifications_queue
              /\ attempted' = <<>>
              /\ pc' = "idle"
        /\ (pc = "sending" /\ pos <= Len(batch)) =>
              /\ pc' = "sending"
              /\ batch' = batch
              /\ pos' \in {pos, pos + 1}
        /\ EndStep => attempted = Ids(batch)
      ]_vars

\* C12 witness: in one cycle a send raised, then the update after a later
\* send raised, and a task after both was attempted and marked sent.
C12_Witness ==
    /\ pc = "sending"
    /\ \E i, j, k \in 1..Len(attempted) :
           /\ i < j /\ j < k
           /\ attempted[i] \in failed
           /\ attempted[j] \notin failed
           /\ RowOf(notifications_queue, attempted[j]).status = "pending"
           /\ RowOf(notifications_queue, attempted[k]).status = "sent"

\* C14: a task is delivered more than once only if, after a send of it
\* returned, its status update raised or the process stopped; with no such
\* iteration every task is delivered at most once; and a task marked sent
\* has been delivered at least once.
C14_RedeliveryOnlyAfterLostMark ==
    /\ \A k \in 1..Len(notifications_queue) :
           /\ delivered[k] > 1 => notifications_queue[k].id \in unmarked
           /\ notifications_queue[k].status = "sent" => delivered[k] >= 1
    /\ unmarked = {} => \A k \in 1..Len(notifications_queue) : delivered[k] <= 1

\* C14 witness: one task was delivered three times, after an update that
\* raised and after a stop, and is now sent; another was delivered once.
C14_Witness ==
    \E i, j \in 1..Len(notifications_queue) :
        /\ delivered[i] = 3
        /\ i \in unmarked
        /\ notifications_queue[i].status = "sent"
        /\ delivered[j] = 1
        /\ j \notin unmarked
        /\ notifications_queue[j].status = "sent"

\* The payload is not the expected mapping: null, a value of another type,
\* or a str that is no JSON or whose JSON value is no object.
Malformed(event_data) ==
    /\ event_data.type # "dict"
    /\ event_data.type = "str" => JsonLoads(event_data.text).type # "dict"

\* C13: a query whose select returned rows answers with its list, never with
\* the failure reply, and every row of a malformed payload is rendered with
\* the default of each payload field.
C13_MalformedRowsDefaulted ==
    view.data # <<>> =>
        /\ view.kind = "list"
        /\ \A k \in 1..Len(view.rows) :
               Malformed(view.rows[k].event_data) =>
                   /\ ~RenderRow(view.rows[k]).raised
                   /\ RenderRow(view.rows[k]).status = StUnknown

====
